---- MODULE Spec2Model ----
(***************************************************************************)
(* Model of lm_eval/tasks/mmlu_cot_blank: utils.py (the two-signal         *)
(* variant) and mmlu_cot_blank.py (the single-boolean variant).            *)
(*                                                                         *)
(* A Python str is a sequence of one-character strings, so that replace,   *)
(* strip, split, lower and the regular expressions are computed character  *)
(* by character.  A dict with optional keys is a record whose DOMAIN holds *)
(* the keys that are present.  A call is one action: fn = "" before the    *)
(* call, afterwards fn names the function that ran and ret holds what it   *)
(* returned or raised.                                                     *)
(***************************************************************************)
EXTENDS Integers, Sequences, FiniteSets, TLC

VARIABLES fn, arg, ret

vars == <<fn, arg, ret>>

(***************************************************************************)
(* Bounds of the input spaces.                                             *)
(***************************************************************************)
MaxDocs == 2

MaxLines == 3

MaxAnswerChunks == 3

MaxRules == 2

MaxRuleInputChunks == 2

MaxCalls == 2

MaxItems == 3

(***************************************************************************)
(* Python str primitives.                                                  *)
(***************************************************************************)
UpperLetters == <<"A","B","C","D","E","F","G","H","I","J","K","L","M",
                  "N","O","P","Q","R","S","T","U","V","W","X","Y","Z">>

LowerLetters == <<"a","b","c","d","e","f","g","h","i","j","k","l","m",
                  "n","o","p","q","r","s","t","u","v","w","x","y","z">>

Digits == <<"0","1","2","3","4","5","6","7","8","9">>

Range(s) == {s[i] : i \in DOMAIN s}

\* str.isspace of one character, and the regular expression class \s
IsSpace(c) == c \in {" ", "\n", "\t", "\r"}

\* the regular expression class \w
IsWord(c) == c \in Range(UpperLetters) \cup Range(LowerLetters) \cup Range(Digits) \cup {"_"}

LowerChar(c) ==
    IF c \in Range(UpperLetters)
    THEN LowerLetters[CHOOSE i \in DOMAIN UpperLetters : UpperLetters[i] = c]
    ELSE c

\* str.lower
lower(s) == [i \in DOMAIN s |-> LowerChar(s[i])]

\* s[i:j] with 1-based inclusive bounds
Slice(s, i, j) == IF j < i THEN <<>> ELSE SubSeq(s, i, j)

\* s.startswith(p, at position i)
MatchAt(s, p, i) ==
    /\ i >= 1
    /\ i + Len(p) - 1 <= Len(s)
    /\ \A k \in 1..Len(p) : s[i + k - 1] = p[k]

\* s.find(p, from): the lowest index >= from where p occurs, 0 when there is none
Find(s, p, from) ==
    LET hits == {i \in from..(Len(s) - Len(p) + 1) : MatchAt(s, p, i)}
    IN  IF hits = {} THEN 0 ELSE CHOOSE i \in hits : \A j \in hits : i <= j

\* p in s
Contains(s, p) == Find(s, p, 1) # 0

\* str.strip
strip(s) ==
    LET keep == {i \in DOMAIN s : ~IsSpace(s[i])}
    IN  IF keep = {} THEN <<>>
        ELSE LET lo == CHOOSE i \in keep : \A j \in keep : i <= j
                 hi == CHOOSE i \in keep : \A j \in keep : i >= j
             IN  SubSeq(s, lo, hi)

RECURSIVE ReplaceFrom(_, _, _, _)
\* str.replace from position i on, for a non-empty old
ReplaceFrom(s, old, new, i) ==
    IF i > Len(s) THEN <<>>
    ELSE IF MatchAt(s, old, i) THEN new \o ReplaceFrom(s, old, new, i + Len(old))
    ELSE <<s[i]>> \o ReplaceFrom(s, old, new, i + 1)

RECURSIVE Interleave(_, _, _)
\* str.replace("", new): new before every character and at the end
Interleave(s, new, i) ==
    IF i > Len(s) THEN new
    ELSE new \o <<s[i]>> \o Interleave(s, new, i + 1)

\* str.replace(old, new): every non-overlapping occurrence, left to right
replace(s, old, new) ==
    IF old = <<>> THEN Interleave(s, new, 1) ELSE ReplaceFrom(s, old, new, 1)

\* str.isdigit (ASCII)
isdigit(s) == s # <<>> /\ \A i \in DOMAIN s : s[i] \in Range(Digits)

DigitValue(c) == (CHOOSE i \in DOMAIN Digits : Digits[i] = c) - 1

RECURSIVE DecimalValue(_)
DecimalValue(s) ==
    IF s = <<>> THEN 0
    ELSE 10 * DecimalValue(SubSeq(s, 1, Len(s) - 1)) + DigitValue(s[Len(s)])

\* int(s): surrounding whitespace and one sign are accepted, anything else is ValueError
int(s) ==
    LET t == strip(s)
        signed == t # <<>> /\ t[1] \in {"+", "-"}
        body == IF signed THEN Tail(t) ELSE t
    IN  IF isdigit(body)
        THEN [ok |-> TRUE, value |-> IF signed /\ t[1] = "-" THEN 0 - DecimalValue(body)
                                     ELSE DecimalValue(body)]
        ELSE [ok |-> FALSE, value |-> 0]

BLANK == <<"_", "_", "_", "_">>

\* f"{question} ____"
AppendBlank(question) == question \o <<" ">> \o BLANK

(***************************************************************************)
(* QuestionTransformer: process_docs of utils.py.                          *)
(***************************************************************************)
UNKNOWN == <<"u","n","k","n","o","w","n">>

\* doc.get("id", f"doc_{len(processed)}")
DocId(doc, n) == IF "id" \in DOMAIN doc THEN doc.id ELSE <<"doc_", n>>

\* doc.get("subject", "unknown")
DocSubject(doc) == IF "subject" \in DOMAIN doc THEN doc.subject ELSE UNKNOWN

\* the try block of utils.process_docs: the resolved correct answer, or the
\* IndexError raised for an index outside the choices
ResolveCorrectAnswer(doc) ==
    IF isdigit(doc.answer)
    THEN LET answer_idx == int(doc.answer).value
         IN  IF 0 <= answer_idx /\ answer_idx < Len(doc.choices)
             THEN [ok |-> TRUE, text |-> doc.choices[answer_idx + 1]]
             ELSE [ok |-> FALSE, text |-> <<>>]
    ELSE [ok |-> TRUE, text |-> doc.answer]

\* QuestionWithBlank without the check that the replacement changed the question
QuestionWithBlank_NoNotFoundFallback(doc) ==
    IF "choices" \in DOMAIN doc
    THEN LET correct_answer == ResolveCorrectAnswer(doc)
         IN  IF correct_answer.ok
             THEN replace(doc.question, correct_answer.text, BLANK)
             ELSE AppendBlank(doc.question)
    ELSE AppendBlank(doc.question)

\* the body of the loop of utils.process_docs up to the append
QuestionWithBlank(doc) ==
    IF "choices" \in DOMAIN doc
    THEN LET correct_answer == ResolveCorrectAnswer(doc)
         IN  IF correct_answer.ok
             THEN LET question_with_blank == replace(doc.question, correct_answer.text, BLANK)
                  IN  IF question_with_blank = doc.question
                      THEN AppendBlank(doc.question)
                      ELSE question_with_blank
             ELSE AppendBlank(doc.question)
    ELSE AppendBlank(doc.question)

\* the record utils.process_docs appends for doc when n records were processed
TransformDoc(doc, n) ==
    [id |-> DocId(doc, n),
     question |-> QuestionWithBlank(doc),
     answer |-> strip(doc.answer),
     subject |-> lower(DocSubject(doc))]

RECURSIVE ProcessDocsLoop(_, _)
ProcessDocsLoop(dataset, processed) ==
    IF Len(processed) = Len(dataset) THEN processed
    ELSE ProcessDocsLoop(dataset,
             Append(processed, TransformDoc(dataset[Len(processed) + 1], Len(processed))))

\* utils.process_docs(dataset)
UtilsProcessDocs(dataset) == [kind |-> "return", value |-> ProcessDocsLoop(dataset, <<>>)]

(***************************************************************************)
(* process_docs of mmlu_cot_blank.py.  question_with_blank is a local of   *)
(* the function, assigned only inside the if: it is unbound until a doc    *)
(* with choices was seen and keeps its value across iterations.            *)
(***************************************************************************)
\* doc["choices"][int(doc["answer"])] with Python's negative indexing
CotCorrectAnswer(doc) ==
    LET idx == int(doc.answer)
        n == Len(doc.choices)
    IN  IF ~idx.ok THEN [ok |-> FALSE, text |-> <<>>]
        ELSE IF 0 <= idx.value /\ idx.value < n
             THEN [ok |-> TRUE, text |-> doc.choices[idx.value + 1]]
        ELSE IF 0 - n <= idx.value /\ idx.value < 0
             THEN [ok |-> TRUE, text |-> doc.choices[n + idx.value + 1]]
        ELSE [ok |-> FALSE, text |-> <<>>]

\* the if statement of the loop: the local after it, given the local before it
CotQuestionWithBlank(doc, local) ==
    IF "choices" \in DOMAIN doc /\ "answer" \in DOMAIN doc
    THEN LET correct_answer == CotCorrectAnswer(doc)
         IN  IF correct_answer.ok
             THEN [bound |-> TRUE, text |-> replace(doc.question, correct_answer.text, BLANK)]
             ELSE [bound |-> TRUE, text |-> AppendBlank(doc.question)]
    ELSE local

RECURSIVE CotProcessDocsLoop(_, _, _)
CotProcessDocsLoop(dataset, processed, local) ==
    IF Len(processed) = Len(dataset) THEN [kind |-> "return", value |-> processed]
    ELSE LET doc == dataset[Len(processed) + 1]
             question_with_blank == CotQuestionWithBlank(doc, local)
         IN  IF ~question_with_blank.bound
             THEN [kind |-> "raise", value |-> "UnboundLocalError"]
             ELSE CotProcessDocsLoop(dataset,
                      Append(processed,
                             [id |-> DocId(doc, Len(processed)),
                              question |-> question_with_blank.text,
                              answer |-> strip(doc.answer),
                              subject |-> DocSubject(doc)]),
                      question_with_blank)

\* mmlu_cot_blank.process_docs(dataset)
CotProcessDocs(dataset) ==
    CotProcessDocsLoop(dataset, <<>>, [bound |-> FALSE, text |-> <<>>])

(***************************************************************************)
(* Datasets handed to process_docs.                                        *)
(***************************************************************************)
DocQuestions == {<<"a"," ","a">>, <<"a"," ","b">>}

DocAnswers == {<<>>, <<"a">>, <<"0">>, <<"1">>, <<"7">>, <<" ","b"," ">>}

DocChoices == {<<  <<"a">>, <<"b">>  >>}

DocSubjects == {<<"M","a","t","h">>}

Docs ==
    {[question |-> q, answer |-> a] : q \in DocQuestions, a \in DocAnswers}
    \cup {[question |-> q, answer |-> a, choices |-> c] :
             q \in DocQuestions, a \in DocAnswers, c \in DocChoices}
    \cup {[question |-> q, answer |-> <<"0">>, choices |-> c, subject |-> s, id |-> <<"i">>] :
             q \in DocQuestions, c \in DocChoices, s \in DocSubjects}

SeqsUpTo(S, n) == UNION {[1..k -> S] : k \in 0..n}

Datasets == SeqsUpTo(Docs, MaxDocs)

InitDocs == fn = "" /\ arg \in Datasets /\ ret = <<>>

process_docs ==
    /\ fn = ""
    /\ fn' = "utils.process_docs"
    /\ ret' = UtilsProcessDocs(arg)
    /\ UNCHANGED arg

cot_process_docs ==
    /\ fn = ""
    /\ fn' = "mmlu_cot_blank.process_docs"
    /\ ret' = CotProcessDocs(arg)
    /\ UNCHANGED arg

NextDocs == process_docs \/ cot_process_docs

SpecDocs == InitDocs /\ [][NextDocs]_vars

(***************************************************************************)
(* Claims about process_docs.                                              *)
(***************************************************************************)
UtilsDone == fn = "utils.process_docs"

CotDone == fn = "mmlu_cot_blank.process_docs"

HasChoices(doc) == "choices" \in DOMAIN doc

\* s with only the first occurrence of old replaced by new
ReplaceFirst(s, old, new) ==
    LET i == Find(s, old, 1)
    IN  IF i = 0 THEN s
        ELSE Slice(s, 1, i - 1) \o new \o Slice(s, i + Len(old), Len(s))

\* the answer is a digit-only index outside 0 <= idx < len(choices)
IndexOutOfRange(doc) ==
    HasChoices(doc) /\ isdigit(doc.answer) /\ DecimalValue(doc.answer) >= Len(doc.choices)

\* the correct-answer text of a doc with choices and a resolvable answer
CorrectText(doc) ==
    IF isdigit(doc.answer) THEN doc.choices[DecimalValue(doc.answer) + 1] ELSE doc.answer

\* the resolved correct-answer text exists and occurs in the question
AnswerInQuestion(doc) ==
    HasChoices(doc) /\ ~IndexOutOfRange(doc) /\ Contains(doc.question, CorrectText(doc))

\* C1: utils.process_docs puts exactly one blank marker into every question:
\* the first occurrence of the resolved correct-answer text is replaced by
\* "____" when that text occurs in the question (also several times, also
\* when it is empty), and otherwise one " ____" is appended.
C1_ExactlyOneBlank ==
    UtilsDone =>
        /\ ret.kind = "return"
        /\ \A i \in DOMAIN arg :
              ret.value[i].question =
                  IF AnswerInQuestion(arg[i])
                  THEN ReplaceFirst(arg[i].question, CorrectText(arg[i]), BLANK)
                  ELSE AppendBlank(arg[i].question)

\* C2: whenever a record has no choices, or a digit-only answer that is an
\* index outside the choices, or a correct-answer text that does not occur
\* in the question, utils.process_docs returns the unmodified question
\* followed by " ____"; the answer is always the stripped answer and no
\* exception escapes.
C2_AppendFallback ==
    UtilsDone =>
        /\ ret.kind = "return"
        /\ Len(ret.value) = Len(arg)
        /\ \A i \in DOMAIN arg :
              /\ ret.value[i].answer = strip(arg[i].answer)
              /\ (~AnswerInQuestion(arg[i])) =>
                     ret.value[i].question = arg[i].question \o <<" ", "_", "_", "_", "_">>

\* C2 witness: the three fallback cases were processed in one dataset or another
C2_Witness ==
    /\ UtilsDone
    /\ Len(arg) = 2
    /\ IndexOutOfRange(arg[1])
    /\ HasChoices(arg[2]) /\ ~IndexOutOfRange(arg[2]) /\ ~AnswerInQuestion(arg[2])
    /\ arg[2].answer # strip(arg[2].answer)
    /\ ret.value[1].question = AppendBlank(arg[1].question)
    /\ ret.value[2].question = AppendBlank(arg[2].question)

\* what fn returns for the dataset holding doc alone
Alone(doc) == IF UtilsDone THEN UtilsProcessDocs(<<doc>>) ELSE CotProcessDocs(<<doc>>)

\* C10: both process_docs variants return one record per input record, in
\* order, whose question and answer are those the record gets when it is
\* processed alone; a record without choices gets its own question with
\* " ____" appended.
C10_PerRecordIndependence ==
    (UtilsDone \/ CotDone) =>
        /\ ret.kind = "return"
        /\ Len(ret.value) = Len(arg)
        /\ \A i \in DOMAIN arg :
              /\ Alone(arg[i]).kind = "return"
              /\ ret.value[i].question = Alone(arg[i]).value[1].question
              /\ ret.value[i].answer = Alone(arg[i]).value[1].answer
              /\ ~HasChoices(arg[i]) => ret.value[i].question = AppendBlank(arg[i].question)

\* C10 restricted to utils.process_docs, which does satisfy it
C10_UtilsOnly == CotDone \/ C10_PerRecordIndependence

(***************************************************************************)
(* AnswerExtractor: extract_answer of utils.py.                            *)
(***************************************************************************)
\* the literal heads of the four patterns, each followed by \s*(.*?)(?=\n|$)
patterns == <<
    <<"A","n","s","w","e","r",":">>,
    <<"T","h","e"," ","a","n","s","w","e","r"," ","i","s">>,
    <<"F","i","n","a","l"," ","a","n","s","w","e","r",":">>,
    <<"F","i","l","l"," ","i","n"," ","t","h","e"," ","b","l","a","n","k",":">> >>

\* the lowest index >= from that holds no whitespace, Len(s) + 1 when there is none
FirstNonSpace(s, from) ==
    LET hits == {i \in from..Len(s) : ~IsSpace(s[i])}
    IN  IF hits = {} THEN Len(s) + 1 ELSE CHOOSE i \in hits : \A j \in hits : i <= j

FirstNewline(s, from) ==
    LET hits == {i \in from..Len(s) : s[i] = "\n"}
    IN  IF hits = {} THEN Len(s) + 1 ELSE CHOOSE i \in hits : \A j \in hits : i <= j

\* re.search(head + r"\s*(.*?)(?=\n|$)", output, re.IGNORECASE | re.DOTALL):
\* the leftmost occurrence of the head in any case, then the greedy \s* skips
\* all whitespace (newlines too), then the lazy group runs to the first
\* position that is followed by a newline or is the end of the text
Search(head, output) ==
    LET at == Find(lower(output), lower(head), 1)
        start == FirstNonSpace(output, at + Len(head))
        stop == FirstNewline(output, start)
    IN  IF at = 0 THEN [match |-> FALSE, group1 |-> <<>>]
        ELSE [match |-> TRUE, group1 |-> Slice(output, start, stop - 1)]

RECURSIVE split(_, _)
\* str.split(sep) for a one-character sep
split(s, sep) ==
    LET hits == {i \in DOMAIN s : s[i] = sep}
    IN  IF hits = {} THEN <<s>>
        ELSE LET i == CHOOSE i \in hits : \A j \in hits : i <= j
             IN  <<Slice(s, 1, i - 1)>> \o split(Slice(s, i + 1, Len(s)), sep)

\* [line.strip() for line in output.split("\n") if line.strip()]
NonBlankLines(output) ==
    LET all == split(output, "\n")
    IN  [i \in DOMAIN all |-> strip(all[i])]

RECURSIVE Filter(_, _)
Filter(seq, drop) ==
    IF seq = <<>> THEN <<>>
    ELSE IF Head(seq) = drop THEN Filter(Tail(seq), drop)
    ELSE <<Head(seq)>> \o Filter(Tail(seq), drop)

\* LastLine returning the first non-blank line instead of the last
LastLine_First(output) ==
    LET lines == Filter(NonBlankLines(output), <<>>)
    IN  IF lines = <<>> THEN <<>> ELSE lines[1]

\* the last two lines of extract_answer
LastLine(output) ==
    LET lines == Filter(NonBlankLines(output), <<>>)
    IN  IF lines = <<>> THEN <<>> ELSE lines[Len(lines)]

RECURSIVE TryPatterns(_, _)
\* the for loop of extract_answer from pattern k on, then the fallback
TryPatterns(output, k) ==
    IF k > Len(patterns) THEN LastLine(output)
    ELSE LET m == Search(patterns[k], output)
             extracted == strip(m.group1)
         IN  IF m.match /\ extracted # <<>> THEN extracted
             ELSE TryPatterns(output, k + 1)

\* extract_answer(output)
ExtractAnswer(output) == IF output = <<>> THEN <<>> ELSE TryPatterns(output, 1)

(***************************************************************************)
(* Model outputs handed to extract_answer: up to MaxLines lines.           *)
(***************************************************************************)
OutputLines == {
    <<>>,
    <<" ">>,
    <<"B">>,
    <<" ","x"," ">>,
    <<"A","n","s","w","e","r",":">>,
    <<"A","N","S","W","E","R",":"," ","B"," ">>,
    <<"t","h","e"," ","a","n","s","w","e","r"," ","i","s">>,
    <<"T","h","e"," ","a","n","s","w","e","r"," ","i","s"," ","C">>,
    <<"F","i","n","a","l"," ","a","n","s","w","e","r",":"," ","D">>,
    <<"F","i","l","l"," ","i","n"," ","t","h","e"," ","b","l","a","n","k",":"," ","E">> }

RECURSIVE Join(_, _)
\* sep.join(parts)
Join(parts, sep) ==
    IF parts = <<>> THEN <<>>
    ELSE IF Len(parts) = 1 THEN parts[1]
    ELSE parts[1] \o sep \o Join(Tail(parts), sep)

Outputs == {Join(ls, <<"\n">>) : ls \in SeqsUpTo(OutputLines, MaxLines)}

InitExtract == fn = "" /\ arg \in Outputs /\ ret = <<>>

extract_answer ==
    /\ fn = ""
    /\ fn' = "utils.extract_answer"
    /\ ret' = ExtractAnswer(arg)
    /\ UNCHANGED arg

NextExtract == extract_answer

SpecExtract == InitExtract /\ [][NextExtract]_vars

(***************************************************************************)
(* Claims about extract_answer.                                            *)
(***************************************************************************)
ExtractDone == fn = "utils.extract_answer"

\* pattern k's marker occurs in the output, in any case
HasMarker(k, output) == Contains(lower(output), lower(patterns[k]))

\* the stripped text between the first occurrence of pattern k's marker and
\* the end of the line that marker is on
SameLineCapture(k, output) ==
    LET after == Find(lower(output), lower(patterns[k]), 1) + Len(patterns[k])
    IN  strip(Slice(output, after, FirstNewline(output, after) - 1))

CapturesOnItsLine(k, output) == HasMarker(k, output) /\ SameLineCapture(k, output) # <<>>

\* C3: extract_answer returns the stripped rest of the marker's own line for
\* the first pattern, in list order, for which that text is not empty.
C3_PatternPrecedence ==
    ExtractDone =>
        \A k \in DOMAIN patterns :
            (/\ CapturesOnItsLine(k, arg)
             /\ \A j \in 1..(k - 1) : ~CapturesOnItsLine(j, arg))
            => ret = SameLineCapture(k, arg)

\* every occurrence of every marker is followed by whitespace only: no
\* pattern of extract_answer captures text that is non-empty when stripped
NoPatternCaptures(output) ==
    \A k \in DOMAIN patterns : \A i \in DOMAIN output :
        MatchAt(lower(output), lower(patterns[k]), i)
        => \A j \in (i + Len(patterns[k]))..Len(output) : IsSpace(output[j])

\* the last non-blank line of the output, stripped; empty when every line is blank
TrimmedLastNonBlankLine(output) ==
    LET ink == {i \in DOMAIN output : ~IsSpace(output[i])}
    IN  IF ink = {} THEN <<>>
        ELSE LET hi == CHOOSE i \in ink : \A j \in ink : j <= i
                 lo == CHOOSE i \in ink :
                          /\ \A j \in i..hi : output[j] # "\n"
                          /\ \A j \in ink : j < i => \E n \in j..i : output[n] = "\n"
             IN  SubSeq(output, lo, hi)

REPLACE == <<"r","e","p","l","a","c","e",":">>

TRIM == <<"t","r","i","m">>

LOWERCASE == <<"l","o","w","e","r","c","a","s","e">>

REMOVE_ARTICLES == <<"r","e","m","o","v","e","_","a","r","t","i","c","l","e","s">>

\* the default rule list with lowercase moved behind remove_articles
DefaultRules_LowercaseLast ==
    << <<"r","e","p","l","a","c","e",":",".",",",";","!","?","(",")","[","]","{","}","'">>, TRIM, REMOVE_ARTICLES, LOWERCASE >>

\* the rules used when rules is None
DefaultRules ==
    << <<"r","e","p","l","a","c","e",":",".",",",";","!","?","(",")","[","]","{","}","'">>, TRIM, LOWERCASE, REMOVE_ARTICLES >>

\* rule.split(":", 1)[1].strip()
ReplaceChars(rule) == strip(Slice(rule, Find(rule, <<":">>, 1) + 1, Len(rule)))

RECURSIVE DeleteChars(_, _)
\* re.sub("[" + re.escape(chars) + "]", "", s) for a non-empty chars
DeleteChars(s, chars) ==
    IF s = <<>> THEN <<>>
    ELSE IF Head(s) \in Range(chars) THEN DeleteChars(Tail(s), chars)
    ELSE <<Head(s)>> \o DeleteChars(Tail(s), chars)

\* \b at the position before s[p], for p in 1..Len(s)+1
WordBoundary(s, p) ==
    LET before == p - 1 >= 1 /\ IsWord(s[p - 1])
        after == p <= Len(s) /\ IsWord(s[p])
    IN  before # after

ARTICLES == << <<"a">>, <<"a","n">>, <<"t","h","e">> >>

\* the alternatives of (a|an|the) that match at i with \b on both sides, in order
ArticleAt(s, i) ==
    {k \in DOMAIN ARTICLES :
        /\ WordBoundary(s, i)
        /\ MatchAt(s, ARTICLES[k], i)
        /\ WordBoundary(s, i + Len(ARTICLES[k]))}

RECURSIVE SubArticles(_, _)
\* re.sub(r"\b(a|an|the)\b", " ", s) from position i on
SubArticles(s, i) ==
    IF i > Len(s) THEN <<>>
    ELSE LET hits == ArticleAt(s, i)
         IN  IF hits = {} THEN <<s[i]>> \o SubArticles(s, i + 1)
             ELSE LET k == CHOOSE k \in hits : \A j \in hits : k <= j
                  IN  <<" ">> \o SubArticles(s, i + Len(ARTICLES[k]))

RECURSIVE CollapseSpaces(_, _)
\* re.sub(r"\s+", " ", s) from position i on
CollapseSpaces(s, i) ==
    IF i > Len(s) THEN <<>>
    ELSE IF IsSpace(s[i]) THEN <<" ">> \o CollapseSpaces(s, FirstNonSpace(s, i))
    ELSE <<s[i]>> \o CollapseSpaces(s, i + 1)

\* one iteration of the for loop of normalize_answer; re.sub raises re.error
\* for the empty character set "[]"
ApplyRule(rule, normalized) ==
    IF MatchAt(rule, REPLACE, 1)
    THEN IF ReplaceChars(rule) = <<>>
         THEN [kind |-> "raise", value |-> "re.error"]
         ELSE [kind |-> "return", value |-> DeleteChars(normalized, ReplaceChars(rule))]
    ELSE IF rule = TRIM THEN [kind |-> "return", value |-> strip(normalized)]
    ELSE IF rule = LOWERCASE THEN [kind |-> "return", value |-> lower(normalized)]
    ELSE IF rule = REMOVE_ARTICLES
         THEN [kind |-> "return",
               value |-> CollapseSpaces(strip(SubArticles(normalized, 1)), 1)]
    ELSE [kind |-> "return", value |-> normalized]

RECURSIVE ApplyRules(_, _, _)
\* the for loop of normalize_answer from rule k on
ApplyRules(rules, k, normalized) ==
    IF k > Len(rules) THEN [kind |-> "return", value |-> normalized]
    ELSE LET step == ApplyRule(rules[k], normalized)
         IN  IF step.kind = "raise" THEN step
             ELSE ApplyRules(rules, k + 1, step.value)

\* the rules parameter of a call: absent (None) selects the default rules
RulesOf(call) == IF "rules" \in DOMAIN call THEN call.rules ELSE DefaultRules

\* normalize_answer(answer, rules)
NormalizeAnswer(answer, rules) == ApplyRules(rules, 1, answer)

(***************************************************************************)
(* Calls of normalize_answer.  The function is called on an answer and,    *)
(* up to MaxCalls times, again on what it returned.                        *)
(***************************************************************************)
AnswerChunks == {<<"a">>, <<"n">>, <<"t","h","e">>, <<"T","h","e"," ">>,
                 <<" ">>, <<".">>, <<"x">>, <<"A">>, <<"_">>, <<"\n">>}

Concat(parts) == Join(parts, <<>>)

Answers == {Concat(cs) : cs \in SeqsUpTo(AnswerChunks, MaxAnswerChunks)}

\* the default list, and each rule of it alone
DefaultRuleLists == {<<DefaultRules[k]>> : k \in DOMAIN DefaultRules}

NormCalls ==
    {[answer |-> a] : a \in Answers}
    \cup {[answer |-> a, rules |-> r] : a \in Answers, r \in DefaultRuleLists}

InitNormalize == fn = "" /\ arg \in NormCalls /\ ret = <<>>

normalize_answer ==
    /\ Len(ret) < MaxCalls
    /\ ret # <<>> => ret[Len(ret)].kind = "return"
    /\ fn' = "utils.normalize_answer"
    /\ ret' = Append(ret, NormalizeAnswer(IF ret = <<>> THEN arg.answer
                                          ELSE ret[Len(ret)].value,
                                          RulesOf(arg)))
    /\ UNCHANGED arg

NextNormalize == normalize_answer

SpecNormalize == InitNormalize /\ [][NextNormalize]_vars

\* rule tokens: the known ones, an unknown one, and replace:<chars> with a
\* plain, an empty, a padded and a colon-holding <chars>
RuleTokens == {TRIM, LOWERCASE, REMOVE_ARTICLES,
               <<"s","t","r","i","p">>,
               <<"r","e","p","l","a","c","e",":","x">>,
               <<"r","e","p","l","a","c","e",":">>,
               <<"r","e","p","l","a","c","e",":"," ","a"," ">>,
               <<"r","e","p","l","a","c","e",":","a",":">>}

RuleInputChunks == {<<"a">>, <<":">>, <<" ">>, <<"x">>, <<"T","h","e">>}

RuleInputs == {Concat(cs) : cs \in SeqsUpTo(RuleInputChunks, MaxRuleInputChunks)}

RuleCalls == {[answer |-> a, rules |-> r] :
                 a \in RuleInputs, r \in SeqsUpTo(RuleTokens, MaxRules)}

InitRules == fn = "" /\ arg \in RuleCalls /\ ret = <<>>

SpecRules == InitRules /\ [][NextNormalize]_vars

(***************************************************************************)
(* Claims about normalize_answer.                                          *)
(***************************************************************************)
NormalizeDone == fn = "utils.normalize_answer"

\* C8: normalize_answer applied to its own output returns that output
\* unchanged, with the default rule list and with each rule of the default
\* list alone.
C8_Idempotent ==
    NormalizeDone =>
        \A i \in 2..Len(ret) : ret[i].kind = "return" /\ ret[i] = ret[i - 1]

\* C8 witness: the default rules changed an answer with a capitalised
\* article and punctuation, and the second call returned the same string
C8_Witness ==
    /\ NormalizeDone
    /\ "rules" \notin DOMAIN arg
    /\ arg.answer = <<"T","h","e"," ",".","x">>
    /\ Len(ret) = 2
    /\ ret[1].value = <<"x">>
    /\ ret[2].value = <<"x">>

\* what a rule does to the running string s according to section 4.3:
\* replace:<chars> deletes every character of <chars>, an unknown token
\* changes nothing
RuleAsSpecified(rule, s) ==
    IF MatchAt(rule, REPLACE, 1)
    THEN SelectSeq(s, LAMBDA c : c \notin Range(Slice(rule, Len(REPLACE) + 1, Len(rule))))
    ELSE IF rule \in {TRIM, LOWERCASE, REMOVE_ARTICLES} THEN ApplyRule(rule, s).value
    ELSE s

RECURSIVE RulesAsSpecified(_, _)
\* the rules applied strictly left to right
RulesAsSpecified(rules, s) ==
    IF rules = <<>> THEN s
    ELSE RulesAsSpecified(Tail(rules), RuleAsSpecified(Head(rules), s))

\* C9: for every string and every list of rule tokens normalize_answer
\* returns a string without raising: the rules applied left to right,
\* replace:<chars> deleting every character of <chars> and nothing else,
\* unknown tokens changing nothing.
C9_NormalizerTotal ==
    (NormalizeDone /\ Len(ret) >= 1) =>
        /\ ret[1].kind = "return"
        /\ ret[1].value = RulesAsSpecified(RulesOf(arg), arg.answer)

\* C9 without the raise: a replace:<chars> whose <chars> has surrounding
\* whitespace deletes that whitespace too
C9_ReplaceDeletesAllChars ==
    (NormalizeDone /\ Len(ret) >= 1 /\ ret[1].kind = "return") =>
        ret[1].value = RulesAsSpecified(RulesOf(arg), arg.answer)

(***************************************************************************)
(* ResultScorer: process_results of utils.py.                              *)
(***************************************************************************)
\* ProcessResults with partial_match computed without the empty-reference guard
ProcessResults_NoEmptyGuard(doc, results, rules) ==
    LET pred == IF results = <<>> THEN <<>> ELSE ExtractAnswer(results[1])
        pred_norm == NormalizeAnswer(pred, rules)
        ref_norm == NormalizeAnswer(doc.answer, rules)
    IN  IF pred_norm.kind = "raise" THEN pred_norm
        ELSE IF ref_norm.kind = "raise" THEN ref_norm
        ELSE [kind |-> "return",
              value |-> [id |-> doc.id,
                         subject |-> doc.subject,
                         prediction |-> pred,
                         reference |-> doc.answer,
                         exact_match |-> pred_norm.value = ref_norm.value,
                         partial_match |-> Contains(pred_norm.value, ref_norm.value)]]

\* process_results(doc, results, normalization_rules); an exception of
\* normalize_answer is not caught
ProcessResults(doc, results, rules) ==
    LET pred == IF results = <<>> THEN <<>> ELSE ExtractAnswer(results[1])
        pred_norm == NormalizeAnswer(pred, rules)
        ref_norm == NormalizeAnswer(doc.answer, rules)
    IN  IF pred_norm.kind = "raise" THEN pred_norm
        ELSE IF ref_norm.kind = "raise" THEN ref_norm
        ELSE [kind |-> "return",
              value |-> [id |-> doc.id,
                         subject |-> doc.subject,
                         prediction |-> pred,
                         reference |-> doc.answer,
                         exact_match |-> pred_norm.value = ref_norm.value,
                         partial_match |-> IF ref_norm.value # <<>>
                                           THEN Contains(pred_norm.value, ref_norm.value)
                                           ELSE FALSE]]

ScoreLines == {
    <<>>,
    <<"B">>,
    <<"A","n","s","w","e","r",":"," ","T","h","e"," ","B",".">>,
    <<"T","h","e"," ","a","n","s","w","e","r"," ","i","s"," ","b"," ","c">>,
    <<"a","n","s","w","e","r",":">> }

ScoreOutputs == {Join(ls, <<"\n">>) : ls \in SeqsUpTo(ScoreLines, MaxLines)}

References == {<<>>, <<"B">>, <<" ","t","h","e"," ">>, <<"b"," ","c">>, <<"c">>}

ScoreRules == {<<>>, <<LOWERCASE>>, <<REPLACE>>}

ScoreDocs == {[id |-> <<"i">>, subject |-> <<"l","a","w">>, answer |-> a] : a \in References}

ScoreResults == {<<>>} \cup {<<o>> : o \in ScoreOutputs}

ScoreCalls ==
    {[doc |-> d, results |-> r] : d \in ScoreDocs, r \in ScoreResults}
    \cup {[doc |-> d, results |-> r, rules |-> n] :
             d \in ScoreDocs, r \in ScoreResults, n \in ScoreRules}

InitScore == fn = "" /\ arg \in ScoreCalls /\ ret = <<>>

process_results ==
    /\ fn = ""
    /\ fn' = "utils.process_results"
    /\ ret' = ProcessResults(arg.doc, arg.results, RulesOf(arg))
    /\ UNCHANGED arg

NextScore == process_results

SpecScore == InitScore /\ [][NextScore]_vars

(***************************************************************************)
(* Claims about process_results.                                           *)
(***************************************************************************)
ScoreDone == fn = "utils.process_results"

\* C5: process_results normalizes prediction and reference with the same
\* rules; exact_match is their equality, partial_match holds exactly when
\* the normalized reference is non-empty and occurs in the normalized
\* prediction, so partial_match implies a non-empty reference and an empty
\* normalized reference gives partial_match = FALSE even when exact_match
\* is TRUE.
C5_ExactAndPartial ==
    (ScoreDone /\ ret.kind = "return") =>
        LET p == NormalizeAnswer(ret.value.prediction, RulesOf(arg)).value
            r == NormalizeAnswer(arg.doc.answer, RulesOf(arg)).value
        IN  /\ ret.value.prediction =
                   (IF arg.results = <<>> THEN <<>> ELSE ExtractAnswer(arg.results[1]))
            /\ ret.value.reference = arg.doc.answer
            /\ ret.value.exact_match <=> (p = r)
            /\ ret.value.partial_match <=>
                   (Len(r) > 0 /\ \E i \in 1..(Len(p) - Len(r) + 1) :
                                      SubSeq(p, i, i + Len(r) - 1) = r)
            /\ ret.value.partial_match => arg.doc.answer # <<>>
            /\ r = <<>> => ~ret.value.partial_match

\* C5 witness: reference and prediction both normalize to the empty string:
\* exact_match without partial_match
C5_Witness ==
    /\ ScoreDone
    /\ ret.kind = "return"
    /\ arg.results # <<>>
    /\ arg.doc.answer # <<>>
    /\ ret.value.exact_match
    /\ ~ret.value.partial_match

(***************************************************************************)
(* Aggregator: evaluate of utils.py.  A float with two decimals is the     *)
(* integer number of hundredths (50.0 is 5000).  A dict is the sequence of *)
(* its items in insertion order, which is the order Python iterates and    *)
(* serializes it in.                                                       *)
(***************************************************************************)
\* Accuracy with the quotient cut off after two decimals instead of rounded
Accuracy_Truncated(count, total) ==
    IF total > 0 THEN (10000 * count) \div total ELSE 0

\* round((count / total) * 100, 2) if total > 0 else 0.0, in hundredths.
\* The quotient lies halfway between two hundredths only when total is a
\* multiple of 32; there the float decides and the result is one of the two
\* neighbours (half-even here).  No total below 32 has such a quotient.
Accuracy(count, total) ==
    IF total > 0
    THEN LET q == (10000 * count) \div total
             r == (10000 * count) % total
         IN  IF 2 * r < total THEN q
             ELSE IF 2 * r > total THEN q + 1
             ELSE IF q % 2 = 0 THEN q ELSE q + 1
    ELSE 0

\* the position of key in the dict, 0 when it is not a key
KeyIndex(dict, key) ==
    IF \E i \in DOMAIN dict : dict[i].key = key
    THEN CHOOSE i \in DOMAIN dict : dict[i].key = key
    ELSE 0

Bump(flag, n) == IF flag THEN n + 1 ELSE n

\* one iteration of the grouping loop
Accumulate(subject_results, res) ==
    LET known == KeyIndex(subject_results, res.subject)
        dict == IF known = 0
                THEN Append(subject_results,
                            [key |-> res.subject,
                             value |-> [total |-> 0, exact_match |-> 0, partial_match |-> 0]])
                ELSE subject_results
        at == KeyIndex(dict, res.subject)
        old == dict[at].value
    IN  [dict EXCEPT ![at].value =
            [total |-> old.total + 1,
             exact_match |-> Bump(res.exact_match, old.exact_match),
             partial_match |-> Bump(res.partial_match, old.partial_match)]]

RECURSIVE GroupBySubject(_, _, _)
\* the grouping loop from result k on
GroupBySubject(results, k, subject_results) ==
    IF k > Len(results) THEN subject_results
    ELSE GroupBySubject(results, k + 1, Accumulate(subject_results, results[k]))

\* the counts with the two accuracies added
WithAccuracy(counts) ==
    [total |-> counts.total,
     exact_match |-> counts.exact_match,
     partial_match |-> counts.partial_match,
     exact_accuracy |-> Accuracy(counts.exact_match, counts.total),
     partial_accuracy |-> Accuracy(counts.partial_match, counts.total)]

\* the loop that computes the per-subject accuracies
SubjectMetrics(subject_results) ==
    [i \in DOMAIN subject_results |->
        [key |-> subject_results[i].key, value |-> WithAccuracy(subject_results[i].value)]]

\* sum(1 for res in results if res[field]) without the first result
CountTrue_SkipFirst(results, field) ==
    Cardinality({i \in DOMAIN results : i > 1 /\ results[i][field]})

\* sum(1 for res in results if res[field])
CountTrue(results, field) == Cardinality({i \in DOMAIN results : results[i][field]})

\* the overall dict
Overall(results) ==
    WithAccuracy([total |-> Len(results),
                  exact_match |-> CountTrue(results, "exact_match"),
                  partial_match |-> CountTrue(results, "partial_match")])

\* evaluate(results)
Evaluate(results) ==
    [overall |-> Overall(results),
     per_subject |-> SubjectMetrics(GroupBySubject(results, 1, <<>>))]

(***************************************************************************)
(* Calls of evaluate: a first pass over the results and a second pass over *)
(* the same results in any order.                                          *)
(***************************************************************************)
Subjects == {<<"l","a","w">>, <<"m","a","t","h">>}

ItemResults == [subject : Subjects, exact_match : BOOLEAN, partial_match : BOOLEAN]

ResultLists == SeqsUpTo(ItemResults, MaxItems)

Orders(n) == {p \in [1..n -> 1..n] : \A i, j \in 1..n : p[i] = p[j] => i = j}

Shuffled(results, p) == [i \in DOMAIN results |-> results[p[i]]]

InitEvaluate == fn = "" /\ arg \in ResultLists /\ ret = <<>>

evaluate ==
    /\ ret = <<>>
    /\ fn' = "utils.evaluate"
    /\ ret' = <<Evaluate(arg)>>
    /\ UNCHANGED arg

evaluate_shuffled ==
    /\ Len(ret) = 1
    /\ \E p \in Orders(Len(arg)) :
          ret' = Append(ret, Evaluate(Shuffled(arg, p)))
    /\ UNCHANGED <<fn, arg>>

NextEvaluate == evaluate \/ evaluate_shuffled

SpecEvaluate == InitEvaluate /\ [][NextEvaluate]_vars

(***************************************************************************)
(* Claims about evaluate.                                                  *)
(***************************************************************************)
EvaluateDone == fn = "utils.evaluate"

\* the dict as a mapping: its items without their order
Items(dict) == {dict[i] : i \in DOMAIN dict}

\* C6 as stated: the Report of a second pass over the same results in
\* another order is identical to the first, the order of the per_subject
\* keys included (the serialized Report is the same byte for byte).
C6_ShuffleIdentical ==
    (EvaluateDone /\ Len(ret) = 2) => ret[2] = ret[1]

\* C6 as amended: the Report of a second pass over the same results in
\* another order has the same overall stats and the same per_subject
\* mapping: the same subjects with the same counts and accuracies.
C6_ShuffleSameMapping ==
    (EvaluateDone /\ Len(ret) = 2) =>
        /\ ret[2].overall = ret[1].overall
        /\ Items(ret[2].per_subject) = Items(ret[1].per_subject)
        /\ Len(ret[2].per_subject) = Len(ret[1].per_subject)

\* C6 witness: two passes over three results of two subjects whose Reports
\* list the subjects in different orders
C6_Witness ==
    /\ EvaluateDone
    /\ Len(arg) = 3
    /\ Len(ret) = 2
    /\ Len(ret[1].per_subject) = 2
    /\ ret[1].per_subject[1] = ret[2].per_subject[2]
    /\ ret[1].per_subject[2] = ret[2].per_subject[1]
    /\ ret[1].overall.exact_match = 2

\* every stats dict of a Report: the overall one and one per subject
AllStats(report) == {report.overall} \cup {it.value : it \in Items(report.per_subject)}

\* acc is count / total as a percentage rounded to the nearest hundredth
IsRoundedPercentage(acc, count, total) ==
    /\ 2 * (acc * total - 10000 * count) <= total
    /\ 2 * (10000 * count - acc * total) <= total

\* C7 as stated: every accuracy is 100 * count / total rounded to two
\* decimals, lies in [0.0, 100.0], and is 0.0 exactly when total = 0.
C7_ZeroExactlyWhenEmpty ==
    EvaluateDone =>
        \A st \in AllStats(ret[1]) :
            /\ st.total > 0 => IsRoundedPercentage(st.exact_accuracy, st.exact_match, st.total)
            /\ st.total > 0 => IsRoundedPercentage(st.partial_accuracy, st.partial_match, st.total)
            /\ st.exact_accuracy \in 0..10000
            /\ st.partial_accuracy \in 0..10000
            /\ st.exact_accuracy = 0 <=> st.total = 0
            /\ st.partial_accuracy = 0 <=> st.total = 0

\* C7 as amended: every accuracy is 100 * count / total rounded to two
\* decimals, lies in [0.0, 100.0], and is 0.0 whenever total = 0 and
\* whenever count = 0; the empty input gives overall total 0, counts 0,
\* accuracies 0.0 and an empty per_subject.
C7_AccuracyBounds ==
    EvaluateDone =>
        /\ \A st \in AllStats(ret[1]) :
              /\ st.total > 0 =>
                     IsRoundedPercentage(st.exact_accuracy, st.exact_match, st.total)
              /\ st.total > 0 =>
                     IsRoundedPercentage(st.partial_accuracy, st.partial_match, st.total)
              /\ st.exact_accuracy \in 0..10000
              /\ st.partial_accuracy \in 0..10000
              /\ (st.total = 0 \/ st.exact_match = 0) => st.exact_accuracy = 0
              /\ (st.total = 0 \/ st.partial_match = 0) => st.partial_accuracy = 0
        /\ arg = <<>> =>
              ret[1] = [overall |-> [total |-> 0, exact_match |-> 0, partial_match |-> 0,
                                     exact_accuracy |-> 0, partial_accuracy |-> 0],
                        per_subject |-> <<>>]

\* C7 witness: three results of one subject, two of them exact: 66.67
C7_Witness ==
    /\ EvaluateDone
    /\ ret[1].overall.total = 3
    /\ ret[1].overall.exact_match = 2
    /\ ret[1].overall.exact_accuracy = 6667
    /\ ret[1].overall.partial_accuracy = 0
    /\ Len(ret[1].per_subject) = 1
    /\ ret[1].per_subject[1].value.exact_accuracy = 6667

====
